---- MODULE Spec2Model ----
(***************************************************************************)
(* Polled hardware operations of the stepper crate:                        *)
(*   StepFuture        (src/src/stepper/step.rs)                           *)
(*   SetStepModeFuture (src/src/stepper/set_step_mode.rs)                  *)
(*   MoveToFuture      (src/src/stepper/move_to.rs)                        *)
(* One operation object is constructed in Init (op says which one) and is  *)
(* then polled.  The driver and timer capabilities are external: every     *)
(* call made on them returns one of the values its signature allows,       *)
(* chosen freely.  log records the capability calls in program order and   *)
(* history records, per poll, the phase before, the value returned, the    *)
(* phase after, the length of log and the level of the step signal.        *)
(* Spec polls the object directly.  SpecAsync polls it through the Future  *)
(* impls (wakes records each adapter poll), SpecWait lets a caller use     *)
(* wait() and poll() (pc, waits), and SpecRelease lets the caller release  *)
(* the object and construct a new one from what release returned (owner),  *)
(* next to which ref, an object constructed afresh with the same           *)
(* arguments, is polled with the same capability answers.                  *)
(***************************************************************************)
EXTENDS Integers, Sequences, FiniteSets

VARIABLES op, state, pin, conv, log, history, pc, waits, wakes, owner, ref

vars == <<op, state, pin, conv, log, history, pc, waits, wakes, owner, ref>>

\* ------------------------------------------------------------------ bounds

\* Polls made on one operation object.
MaxPolls == 5

\* Times the timer answers "still counting" (WouldBlock), or update answers
\* "still moving", to a caller that uses wait().
MaxBusy == 1

\* Calls of wait() or poll() made by a caller that uses wait().
MaxCalls == 3

\* Capability calls that fail while a caller uses wait() or release().
MaxFaults == 1

\* ------------------------------------------------------- capability values

\* Payloads of the capabilities' error types (Driver::Error, Timer::Error, ...).
ErrVals == {"e1", "e2"}

\* Arguments of MoveToFuture::new.
Velocities == {"v1", "v2"}
Targets == {-1, 3}

\* Values returned by a capability call: Result<(), E>, nb::Result<(), E>
\* and Result<bool, E>.
Ok == [t |-> "Ok", e |-> "-", v |-> FALSE]
OkV(b) == [t |-> "Ok", e |-> "-", v |-> b]
Err(e) == [t |-> "Err", e |-> e, v |-> FALSE]
WouldBlock == [t |-> "WouldBlock", e |-> "-", v |-> FALSE]

Rets == {Ok} \cup {Err(e) : e \in ErrVals}
WaitRets == Rets \cup {WouldBlock}
UpdateRets == {OkV(TRUE), OkV(FALSE)} \cup {Err(e) : e \in ErrVals}

\* Result of a duration conversion of a driver constant (fixed per build).
ConvRets == {Ok, Err("conv")}

\* ------------------------------------------------------------ poll values

\* core::task::Poll<Result<(), E>>, E tagged by the error enum's variant.
Pending == [poll |-> "Pending", res |-> "-", kind |-> "-", err |-> "-"]
ReadyOk == [poll |-> "Ready", res |-> "Ok", kind |-> "-", err |-> "-"]
ReadyErr(k, e) == [poll |-> "Ready", res |-> "Err", kind |-> k, err |-> e]

\* One capability call as recorded in log.
Call(c, r, a) == [call |-> c, ret |-> r, arg |-> a]

\* What one poll leaves behind: the object's state, the value returned, the
\* capability calls made so far and the level of the step signal.
Out(s, r, lg, p) == [state |-> s, result |-> r, log |-> lg, pin |-> p]

\* Phases (the State enums).
Initial == [tag |-> "Initial"]
PulseStarted == [tag |-> "PulseStarted"]
ApplyingConfig == [tag |-> "ApplyingConfig"]
EnablingDriver == [tag |-> "EnablingDriver"]
Moving == [tag |-> "Moving"]
Finished == [tag |-> "Finished"]
MoveInitial(v, t) == [tag |-> "Initial", max_velocity |-> v, target_step |-> t]

\* ------------------------------------------------------------- StepFuture

\* StepInitial with the set_high() call left out: the timer is started on a
\* signal that was never driven.
StepInitial_NoSetHigh(st, lg, p, e) ==
  LET l1 == Append(lg, Call("step", e.step, <<>>))
      l3 == Append(l1, Call("start", e.start, <<"PULSE_LENGTH">>))
  IN  IF e.step.t = "Err"
        THEN Out(st, ReadyErr("PinUnavailable", e.step.e), l1, p)
      ELSE IF e.start.t = "Err"
        THEN Out(st, ReadyErr("Timer", e.start.e), l3, p)
      ELSE Out(PulseStarted, Pending, l3, p)

\* State::Initial arm.  e.step, e.set_high, e.start are what driver.step(),
\* set_high() and timer.start() return in this poll.  A `?` returns the
\* error and leaves self.state as it was.
StepInitial(st, lg, p, e) ==
  LET l1 == Append(lg, Call("step", e.step, <<>>))
      l2 == Append(l1, Call("set_high", e.set_high, <<>>))
      l3 == Append(l2, Call("start", e.start, <<"PULSE_LENGTH">>))
  IN  IF e.step.t = "Err"
        THEN Out(st, ReadyErr("PinUnavailable", e.step.e), l1, p)
      ELSE IF e.set_high.t = "Err"
        THEN Out(st, ReadyErr("Pin", e.set_high.e), l2, p)
      ELSE IF e.start.t = "Err"
        THEN Out(st, ReadyErr("Timer", e.start.e), l3, "high")
      ELSE Out(PulseStarted, Pending, l3, "high")

\* StepPulseStarted where a timer error is returned without ending the
\* operation: the phase stays PulseStarted.
StepPulseStarted_TimerErrorStays(st, lg, p, e) ==
  LET l1 == Append(lg, Call("wait", e.wait, <<>>))
      l2 == Append(l1, Call("step", e.step, <<>>))
      l3 == Append(l2, Call("set_low", e.set_low, <<>>))
  IN  IF e.wait.t = "WouldBlock"
        THEN Out(st, Pending, l1, p)
      ELSE IF e.wait.t = "Err"
        THEN Out(st, ReadyErr("Timer", e.wait.e), l1, p)
      ELSE IF e.step.t = "Err"
        THEN Out(st, ReadyErr("PinUnavailable", e.step.e), l2, p)
      ELSE IF e.set_low.t = "Err"
        THEN Out(st, ReadyErr("Pin", e.set_low.e), l3, p)
      ELSE Out(Finished, ReadyOk, l3, "low")

\* StepPulseStarted with the pulse never ended: success is returned as soon
\* as the timer is done, without set_low().
StepPulseStarted_NoSetLow(st, lg, p, e) ==
  LET l1 == Append(lg, Call("wait", e.wait, <<>>))
  IN  IF e.wait.t = "WouldBlock"
        THEN Out(st, Pending, l1, p)
      ELSE IF e.wait.t = "Err"
        THEN Out(Finished, ReadyErr("Timer", e.wait.e), l1, p)
      ELSE Out(Finished, ReadyOk, l1, p)

\* State::PulseStarted arm.  e.wait, e.step, e.set_low are what timer.wait(),
\* driver.step() and set_low() return in this poll.
StepPulseStarted(st, lg, p, e) ==
  LET l1 == Append(lg, Call("wait", e.wait, <<>>))
      l2 == Append(l1, Call("step", e.step, <<>>))
      l3 == Append(l2, Call("set_low", e.set_low, <<>>))
  IN  IF e.wait.t = "WouldBlock"
        THEN Out(st, Pending, l1, p)
      ELSE IF e.wait.t = "Err"
        THEN Out(Finished, ReadyErr("Timer", e.wait.e), l1, p)
      ELSE IF e.step.t = "Err"
        THEN Out(st, ReadyErr("PinUnavailable", e.step.e), l2, p)
      ELSE IF e.set_low.t = "Err"
        THEN Out(st, ReadyErr("Pin", e.set_low.e), l3, p)
      ELSE Out(Finished, ReadyOk, l3, "low")

\* StepFinished that lowers the signal again on every poll.
StepFinished_Relower(st, lg, p) ==
  Out(st, ReadyOk, Append(Append(lg, Call("step", Ok, <<>>)),
                          Call("set_low", Ok, <<>>)), "low")

\* State::Finished arm.
StepFinished(st, lg, p) == Out(st, ReadyOk, lg, p)

\* ------------------------------------------------------ SetStepModeFuture

\* ModeInitial that goes on to ApplyingConfig although try_start() failed.
ModeInitial_IgnoresStartError(st, lg, p, cv, e) ==
  LET l1 == Append(lg, Call("apply_mode_config", e.apply, <<"step_mode">>))
      l2 == Append(l1, Call("try_start", e.start, <<"SETUP_TIME">>))
  IN  IF e.apply.t = "Err"
        THEN Out(st, ReadyErr("Pin", e.apply.e), l1, p)
      ELSE IF cv.setup.t = "Err"
        THEN Out(st, ReadyErr("TimeConversion", cv.setup.e), l1, p)
      ELSE Out(ApplyingConfig, Pending, l2, p)

\* State::Initial arm.  e.apply and e.start are what apply_mode_config() and
\* timer.try_start() return in this poll; cv.setup is the conversion of
\* Driver::SETUP_TIME.
ModeInitial(st, lg, p, cv, e) ==
  LET l1 == Append(lg, Call("apply_mode_config", e.apply, <<"step_mode">>))
      l2 == Append(l1, Call("try_start", e.start, <<"SETUP_TIME">>))
  IN  IF e.apply.t = "Err"
        THEN Out(st, ReadyErr("Pin", e.apply.e), l1, p)
      ELSE IF cv.setup.t = "Err"
        THEN Out(st, ReadyErr("TimeConversion", cv.setup.e), l1, p)
      ELSE IF e.start.t = "Err"
        THEN Out(st, ReadyErr("Timer", e.start.e), l2, p)
      ELSE Out(ApplyingConfig, Pending, l2, p)

\* ModeApplyingConfig that defers success to the end of the hold time: the
\* poll that arms the hold timer returns Poll::Pending.
ModeApplyingConfig_Deferred(st, lg, p, cv, e) ==
  LET l1 == Append(lg, Call("try_wait", e.wait, <<>>))
      l2 == Append(l1, Call("enable_driver", e.enable, <<>>))
      l3 == Append(l2, Call("try_start", e.start, <<"HOLD_TIME">>))
  IN  IF e.wait.t = "WouldBlock"
        THEN Out(st, Pending, l1, p)
      ELSE IF e.wait.t = "Err"
        THEN Out(Finished, ReadyErr("Timer", e.wait.e), l1, p)
      ELSE IF e.enable.t = "Err"
        THEN Out(st, ReadyErr("Pin", e.enable.e), l2, p)
      ELSE IF cv.hold.t = "Err"
        THEN Out(st, ReadyErr("TimeConversion", cv.hold.e), l2, p)
      ELSE IF e.start.t = "Err"
        THEN Out(st, ReadyErr("Timer", e.start.e), l3, p)
      ELSE Out(EnablingDriver, Pending, l3, p)

\* State::ApplyingConfig arm.  e.wait, e.enable, e.start are what
\* timer.try_wait(), enable_driver() and timer.try_start() return in this
\* poll; cv.hold is the conversion of Driver::HOLD_TIME.
ModeApplyingConfig(st, lg, p, cv, e) ==
  LET l1 == Append(lg, Call("try_wait", e.wait, <<>>))
      l2 == Append(l1, Call("enable_driver", e.enable, <<>>))
      l3 == Append(l2, Call("try_start", e.start, <<"HOLD_TIME">>))
  IN  IF e.wait.t = "WouldBlock"
        THEN Out(st, Pending, l1, p)
      ELSE IF e.wait.t = "Err"
        THEN Out(Finished, ReadyErr("Timer", e.wait.e), l1, p)
      ELSE IF e.enable.t = "Err"
        THEN Out(st, ReadyErr("Pin", e.enable.e), l2, p)
      ELSE IF cv.hold.t = "Err"
        THEN Out(st, ReadyErr("TimeConversion", cv.hold.e), l2, p)
      ELSE IF e.start.t = "Err"
        THEN Out(st, ReadyErr("Timer", e.start.e), l3, p)
      ELSE Out(EnablingDriver, ReadyOk, l3, p)

\* ModeEnablingDriver that goes back to ApplyingConfig while the hold timer
\* is still counting.
ModeEnablingDriver_Back(st, lg, p, e) ==
  LET l1 == Append(lg, Call("try_wait", e.wait, <<>>))
  IN  IF e.wait.t = "WouldBlock"
        THEN Out(ApplyingConfig, Pending, l1, p)
      ELSE IF e.wait.t = "Err"
        THEN Out(Finished, ReadyErr("Timer", e.wait.e), l1, p)
      ELSE Out(Finished, ReadyOk, l1, p)

\* State::EnablingDriver arm.  e.wait is what timer.try_wait() returns.
ModeEnablingDriver(st, lg, p, e) ==
  LET l1 == Append(lg, Call("try_wait", e.wait, <<>>))
  IN  IF e.wait.t = "WouldBlock"
        THEN Out(st, Pending, l1, p)
      ELSE IF e.wait.t = "Err"
        THEN Out(Finished, ReadyErr("Timer", e.wait.e), l1, p)
      ELSE Out(Finished, ReadyOk, l1, p)

\* State::Finished arm.
ModeFinished(st, lg, p) == Out(st, ReadyOk, lg, p)

\* ------------------------------------------------------------ MoveToFuture

\* MoveInitialArm that ends the operation when move_to_position fails.
MoveInitialArm_FailureFinishes(st, lg, p, e) ==
  LET l1 == Append(lg, Call("move_to_position", e.move,
                            <<st.max_velocity, st.target_step>>))
  IN  IF e.move.t = "Err"
        THEN Out(Finished, ReadyErr("Driver", e.move.e), l1, p)
      ELSE Out(Moving, Pending, l1, p)

\* MoveInitialArm without the assignment self.state = State::Moving.
MoveInitialArm_NoTransition(st, lg, p, e) ==
  LET l1 == Append(lg, Call("move_to_position", e.move,
                            <<st.max_velocity, st.target_step>>))
  IN  IF e.move.t = "Err"
        THEN Out(st, ReadyErr("Driver", e.move.e), l1, p)
      ELSE Out(st, Pending, l1, p)

\* State::Initial { max_velocity, target_step } arm.  e.move is what
\* move_to_position() returns in this poll.
MoveInitialArm(st, lg, p, e) ==
  LET l1 == Append(lg, Call("move_to_position", e.move,
                            <<st.max_velocity, st.target_step>>))
  IN  IF e.move.t = "Err"
        THEN Out(st, ReadyErr("Driver", e.move.e), l1, p)
      ELSE Out(Moving, Pending, l1, p)

\* MoveMoving that swallows a failed update and reports motion in progress.
MoveMoving_SwallowsError(st, lg, p, e) ==
  LET l1 == Append(lg, Call("update", e.update, <<>>))
  IN  IF e.update.t = "Err"
        THEN Out(st, Pending, l1, p)
      ELSE IF e.update.v
        THEN Out(st, Pending, l1, p)
      ELSE Out(Finished, ReadyOk, l1, p)

\* MoveMoving with the test of still_moving inverted.
MoveMoving_Inverted(st, lg, p, e) ==
  LET l1 == Append(lg, Call("update", e.update, <<>>))
  IN  IF e.update.t = "Err"
        THEN Out(st, ReadyErr("Driver", e.update.e), l1, p)
      ELSE IF ~e.update.v
        THEN Out(st, Pending, l1, p)
      ELSE Out(Finished, ReadyOk, l1, p)

\* State::Moving arm.  e.update is what update() returns in this poll.
MoveMoving(st, lg, p, e) ==
  LET l1 == Append(lg, Call("update", e.update, <<>>))
  IN  IF e.update.t = "Err"
        THEN Out(st, ReadyErr("Driver", e.update.e), l1, p)
      ELSE IF e.update.v
        THEN Out(st, Pending, l1, p)
      ELSE Out(Finished, ReadyOk, l1, p)

\* State::Finished arm.
MoveFinished(st, lg, p) == Out(st, ReadyOk, lg, p)

\* --------------------------------------------------------------- the object

\* The object after a poll, and the poll's record in history.
ApplyCore(o) ==
  /\ state' = o.state
  /\ log' = o.log
  /\ pin' = o.pin
  /\ history' = Append(history,
                  [pre |-> state.tag, ret |-> o.result, post |-> o.state.tag,
                   n |-> Len(o.log), pin |-> o.pin])
  /\ UNCHANGED <<op, conv>>

\* A poll made directly on the object by its owner.
Apply(o) ==
  /\ ApplyCore(o)
  /\ UNCHANGED <<pc, waits, wakes, owner, ref>>

CanPoll(o) == op = o /\ Len(history) < MaxPolls

StepPollInitial ==
  /\ CanPoll("step") /\ state.tag = "Initial"
  /\ \E s \in Rets, h \in Rets, t \in Rets :
       Apply(StepInitial(state, log, pin, [step |-> s, set_high |-> h, start |-> t]))

StepPollPulseStarted ==
  /\ CanPoll("step") /\ state.tag = "PulseStarted"
  /\ \E w \in WaitRets, s \in Rets, l \in Rets :
       Apply(StepPulseStarted(state, log, pin, [wait |-> w, step |-> s, set_low |-> l]))

StepPollFinished ==
  /\ CanPoll("step") /\ state.tag = "Finished"
  /\ Apply(StepFinished(state, log, pin))

ModePollInitial ==
  /\ CanPoll("mode") /\ state.tag = "Initial"
  /\ \E a \in Rets, t \in Rets :
       Apply(ModeInitial(state, log, pin, conv, [apply |-> a, start |-> t]))

ModePollApplyingConfig ==
  /\ CanPoll("mode") /\ state.tag = "ApplyingConfig"
  /\ \E w \in WaitRets, d \in Rets, t \in Rets :
       Apply(ModeApplyingConfig(state, log, pin, conv,
                                [wait |-> w, enable |-> d, start |-> t]))

ModePollEnablingDriver ==
  /\ CanPoll("mode") /\ state.tag = "EnablingDriver"
  /\ \E w \in WaitRets :
       Apply(ModeEnablingDriver(state, log, pin, [wait |-> w]))

ModePollFinished ==
  /\ CanPoll("mode") /\ state.tag = "Finished"
  /\ Apply(ModeFinished(state, log, pin))

MovePollInitial ==
  /\ CanPoll("move") /\ state.tag = "Initial"
  /\ \E m \in Rets :
       Apply(MoveInitialArm(state, log, pin, [move |-> m]))

MovePollMoving ==
  /\ CanPoll("move") /\ state.tag = "Moving"
  /\ \E u \in UpdateRets :
       Apply(MoveMoving(state, log, pin, [update |-> u]))

MovePollFinished ==
  /\ CanPoll("move") /\ state.tag = "Finished"
  /\ Apply(MoveFinished(state, log, pin))

\* StepFuture::new: the step signal is at whatever level the caller left it.
StepNew ==
  /\ op = "step"
  /\ state = Initial
  /\ pin \in {"low", "high"}
  /\ conv = [setup |-> Ok, hold |-> Ok]

\* SetStepModeFuture::new: whether SETUP_TIME and HOLD_TIME convert to the
\* timer's time type is fixed by the driver and timer types.
ModeNew ==
  /\ op = "mode"
  /\ state = Initial
  /\ pin = "low"
  /\ conv \in [setup : ConvRets, hold : ConvRets]

\* MoveToFuture::new
MoveNew ==
  /\ op = "move"
  /\ \E v \in Velocities, t \in Targets : state = MoveInitial(v, t)
  /\ pin = "low"
  /\ conv = [setup |-> Ok, hold |-> Ok]

\* The object as constructed, not polled yet; live says whether it is being
\* polled next to a reconstructed object (SpecRelease).
Fresh(st, p) ==
  [live |-> FALSE, state |-> st, pin |-> p, log |-> <<>>, rets |-> <<>>,
   base |-> 0, logbase |-> 0, from |-> "-"]

\* The caller is outside wait(), having called wait() or poll() n times.
Idle(n) == [at |-> "idle", from |-> 0, calls |-> n]

Init ==
  /\ op \in {"step", "mode", "move"}
  /\ StepNew \/ ModeNew \/ MoveNew
  /\ log = <<>>
  /\ history = <<>>
  /\ pc = Idle(0)
  /\ waits = <<>>
  /\ wakes = <<>>
  /\ owner = "future"
  /\ ref = Fresh(state, pin)

Next ==
  \/ StepPollInitial
  \/ StepPollPulseStarted
  \/ StepPollFinished
  \/ ModePollInitial
  \/ ModePollApplyingConfig
  \/ ModePollEnablingDriver
  \/ ModePollFinished
  \/ MovePollInitial
  \/ MovePollMoving
  \/ MovePollFinished

Spec == Init /\ [][Next]_vars

\* ------------------------------------------------------ poll as a whole

\* StepFuture::poll: match self.state.
StepFuture_poll(st, lg, p, e) ==
  CASE st.tag = "Initial" -> StepInitial(st, lg, p, e)
    [] st.tag = "PulseStarted" -> StepPulseStarted(st, lg, p, e)
    [] OTHER -> StepFinished(st, lg, p)

\* SetStepModeFuture::poll: match self.state.
SetStepModeFuture_poll(st, lg, p, cv, e) ==
  CASE st.tag = "Initial" -> ModeInitial(st, lg, p, cv, e)
    [] st.tag = "ApplyingConfig" -> ModeApplyingConfig(st, lg, p, cv, e)
    [] st.tag = "EnablingDriver" -> ModeEnablingDriver(st, lg, p, e)
    [] OTHER -> ModeFinished(st, lg, p)

\* MoveToFuture::poll: match self.state.
MoveToFuture_poll(st, lg, p, e) ==
  CASE st.tag = "Initial" -> MoveInitialArm(st, lg, p, e)
    [] st.tag = "Moving" -> MoveMoving(st, lg, p, e)
    [] OTHER -> MoveFinished(st, lg, p)

\* poll of the operation o.
PollOf(o, st, lg, p, cv, e) ==
  CASE o = "step" -> StepFuture_poll(st, lg, p, e)
    [] o = "mode" -> SetStepModeFuture_poll(st, lg, p, cv, e)
    [] OTHER -> MoveToFuture_poll(st, lg, p, e)

\* What the capabilities return during one poll: one value per call the
\* poll can make (a call the arm does not make returns nothing; its field
\* is left at Ok).
NoCalls ==
  [step |-> Ok, set_high |-> Ok, set_low |-> Ok, start |-> Ok, wait |-> Ok,
   apply |-> Ok, enable |-> Ok, move |-> Ok, update |-> OkV(FALSE)]

Envs(o, tag) ==
  CASE o = "step" /\ tag = "Initial" ->
         {[NoCalls EXCEPT !.step = s, !.set_high = h, !.start = t] :
             s \in Rets, h \in Rets, t \in Rets}
    [] o = "step" /\ tag = "PulseStarted" ->
         {[NoCalls EXCEPT !.wait = w, !.step = s, !.set_low = l] :
             w \in WaitRets, s \in Rets, l \in Rets}
    [] o = "mode" /\ tag = "Initial" ->
         {[NoCalls EXCEPT !.apply = a, !.start = t] : a \in Rets, t \in Rets}
    [] o = "mode" /\ tag = "ApplyingConfig" ->
         {[NoCalls EXCEPT !.wait = w, !.enable = d, !.start = t] :
             w \in WaitRets, d \in Rets, t \in Rets}
    [] o = "mode" /\ tag = "EnablingDriver" ->
         {[NoCalls EXCEPT !.wait = w] : w \in WaitRets}
    [] o = "move" /\ tag = "Initial" ->
         {[NoCalls EXCEPT !.move = m] : m \in Rets}
    [] o = "move" /\ tag = "Moving" ->
         {[NoCalls EXCEPT !.update = u] : u \in UpdateRets}
    [] OTHER -> {NoCalls}

\* ---------------------------------------------------------- Future impls

\* The adapter waking the task on every poll, also on a final one.
FuturePoll_AlwaysWakes(r) == [out |-> r, woken |-> 1]

\* impl Future for StepFuture / MoveToFuture, poll(self, cx): r is what the
\* operation's own poll returned.  out is what the adapter returns, woken
\* the number of cx.waker().wake_by_ref() calls it made.
FuturePoll(r) ==
  IF r.poll = "Ready"
    THEN [out |-> r, woken |-> 0]
    ELSE [out |-> Pending, woken |-> 1]

\* One poll through the Future impl; inner is the number of polls of the
\* operation it made.
AdapterPoll(o) ==
  /\ CanPoll(o)
  /\ \E e \in Envs(op, state.tag) :
       LET r == PollOf(op, state, log, pin, conv, e)
           a == FuturePoll(r.result)
       IN  /\ ApplyCore(r)
           /\ wakes' = Append(wakes, [at |-> Len(history) + 1, inner |-> 1,
                                      out |-> a.out, woken |-> a.woken])
  /\ UNCHANGED <<pc, waits, owner, ref>>

StepFuturePoll == AdapterPoll("step")

MoveFuturePoll == AdapterPoll("move")

InitAsync == Init /\ op \in {"step", "move"}

NextAsync ==
  \/ StepFuturePoll
  \/ MoveFuturePoll

SpecAsync == InitAsync /\ [][NextAsync]_vars

\* ------------------------------------------------------------------ wait

\* The capability answered "not yet": the timer is still counting, or the
\* motion is still in progress.
IsBusy(c) ==
  \/ c.ret = WouldBlock
  \/ c.call = "update" /\ c.ret = OkV(TRUE)

BusyCount == Cardinality({k \in 1..Len(log) : IsBusy(log[k])})

FaultCount == Cardinality({k \in 1..Len(log) : log[k].ret.t = "Err"})

\* The answers of capabilities of which at most MaxFaults calls fail.
EnvsFewFaults ==
  {e \in Envs(op, state.tag) :
     FaultCount + Cardinality({f \in DOMAIN e : e[f].t = "Err"}) <= MaxFaults}

\* The answers of capabilities that stop answering "not yet" in the end: at
\* most MaxBusy such answers are given.
EnvsThatFinish ==
  {e \in EnvsFewFaults :
     (e.wait = WouldBlock \/ e.update = OkV(TRUE)) => BusyCount < MaxBusy}

\* A wait loop that goes on after a poll that returned an error.
WaitReturns_OnlyOnSuccess(r) == r = ReadyOk

\* wait(): `if let Poll::Ready(result) = self.poll() { return result; }`
WaitReturns(r) == r.poll = "Ready"

\* The Result<(), E> inside Poll::Ready.
ResultOf(r) == [res |-> r.res, kind |-> r.kind, err |-> r.err]

\* The caller calls wait() on the object.
WaitCall ==
  /\ pc.at = "idle" /\ owner = "future"
  /\ pc.calls < MaxCalls
  /\ pc' = [at |-> "wait", from |-> Len(history) + 1, calls |-> pc.calls + 1]
  /\ UNCHANGED <<op, state, pin, conv, log, history, waits, wakes, owner, ref>>

\* One turn of wait()'s loop: one poll, and the return if it was final.
WaitLoop ==
  /\ pc.at = "wait"
  /\ Len(history) < MaxCalls + MaxBusy + 1
  /\ \E e \in EnvsThatFinish :
       LET r == PollOf(op, state, log, pin, conv, e)
       IN  /\ ApplyCore(r)
           /\ IF WaitReturns(r.result)
                THEN /\ pc' = Idle(pc.calls)
                     /\ waits' = Append(waits,
                          [first |-> pc.from, last |-> Len(history) + 1,
                           result |-> ResultOf(r.result)])
                ELSE UNCHANGED <<pc, waits>>
  /\ UNCHANGED <<wakes, owner, ref>>

\* The caller polls the object itself, outside wait().
CallerPoll ==
  /\ pc.at = "idle" /\ owner = "future"
  /\ pc.calls < MaxCalls
  /\ \E e \in EnvsThatFinish : ApplyCore(PollOf(op, state, log, pin, conv, e))
  /\ pc' = Idle(pc.calls + 1)
  /\ UNCHANGED <<waits, wakes, owner, ref>>

NextWait ==
  \/ WaitCall
  \/ WaitLoop
  \/ CallerPoll

\* wait() is a busy loop: while it runs, its next turn is always taken.
SpecWait == Init /\ [][NextWait]_vars /\ WF_vars(WaitLoop)

\* --------------------------------------------------------------- release

\* A release that ends the pulse before handing the driver back.
StepFuture_release_LowersSignal(lg, p) ==
  [log |-> Append(Append(lg, Call("step", Ok, <<>>)), Call("set_low", Ok, <<>>)),
   pin |-> "low"]

\* StepFuture::release: (self.driver, self.timer), the capabilities as they
\* are: the calls made on them so far and the level of the step signal.
StepFuture_release(lg, p) == [log |-> lg, pin |-> p]

\* MoveToFuture::release: self.driver.
MoveToFuture_release(lg, p) == [log |-> lg, pin |-> p]

\* A constructor that starts a pulse on a signal it believes to be high
\* already in the phase PulseStarted.
StepFuture_new_Resumes(p) == IF p = "high" THEN PulseStarted ELSE Initial

\* StepFuture::new(driver, timer): p is the level of the driver's signal.
StepFuture_new(p) == Initial

\* MoveToFuture::new(driver, max_velocity, target_step).
MoveToFuture_new(v, t) == MoveInitial(v, t)

\* The caller releases the object; it exists no more.
Release ==
  /\ owner = "future" /\ op \in {"step", "move"}
  /\ LET r == IF op = "step" THEN StepFuture_release(log, pin)
                             ELSE MoveToFuture_release(log, pin)
     IN  log' = r.log /\ pin' = r.pin
  /\ owner' = "caller"
  /\ ref' = IF ref.live THEN ref ELSE [ref EXCEPT !.from = state.tag]
  /\ UNCHANGED <<op, state, conv, history, pc, waits, wakes>>

\* The caller constructs a new object from what release returned, with the
\* arguments the first one was constructed with; from here on ref is polled
\* next to it.
Renew ==
  /\ owner = "caller" /\ ~ref.live
  /\ state' = IF op = "step"
                THEN StepFuture_new(pin)
                ELSE MoveToFuture_new(ref.state.max_velocity, ref.state.target_step)
  /\ owner' = "future"
  /\ ref' = [ref EXCEPT !.live = TRUE, !.base = Len(history), !.logbase = Len(log)]
  /\ UNCHANGED <<op, pin, conv, log, history, pc, waits, wakes>>

\* A poll of the object; once there is a reconstructed object, the fresh one
\* is polled too and its capabilities give the same answers.
ReleasePoll ==
  /\ owner = "future" /\ CanPoll(op)
  /\ \E e \in EnvsFewFaults :
       /\ ApplyCore(PollOf(op, state, log, pin, conv, e))
       /\ ref' = IF ref.live
                   THEN LET f == PollOf(op, ref.state, ref.log, ref.pin, conv, e)
                        IN  [ref EXCEPT !.state = f.state, !.log = f.log,
                                        !.pin = f.pin,
                                        !.rets = Append(ref.rets, f.result)]
                   ELSE ref
  /\ UNCHANGED <<pc, waits, wakes, owner>>

InitRelease == Init /\ op \in {"step", "move"}

NextRelease ==
  \/ ReleasePoll
  \/ Release
  \/ Renew

SpecRelease == InitRelease /\ [][NextRelease]_vars

\* ------------------------------------------------------- reading history

Polls == 1..Len(history)

\* The number of capability calls made before poll i.
LogBefore(i) == IF i = 1 THEN 0 ELSE history[i - 1].n

\* The capability calls made during poll i.
PollLog(i) == SubSeq(log, LogBefore(i) + 1, history[i].n)

\* The capability calls made up to the end of poll i.
LogUpTo(i) == SubSeq(log, 1, history[i].n)

HasCall(sq, c, t) == \E k \in 1..Len(sq) : sq[k].call = c /\ sq[k].ret.t = t

Count(sq, c) == Cardinality({k \in 1..Len(sq) : sq[k].call = c})

IsErr(r) == r.poll = "Ready" /\ r.res = "Err"

\* ---------------------------------------------------------------- C1

\* C1 as stated: the first poll of a fresh StepFuture always returns Pending
\* and leaves the step signal high, whatever the driver and timer return.
C1_FirstPollAlwaysPending ==
  (op = "step" /\ Len(history) >= 1) =>
     (history[1].ret = Pending /\ history[1].pin = "high")

\* C1 amended: the first poll of a fresh StepFuture returns Pending exactly
\* when step(), set_high() and timer.start() all succeed, and then the signal
\* is high and the phase PulseStarted; otherwise it returns the error of the
\* call that failed, the phase stays Initial, and it never returns success.
C1_FirstPollPendingIffAllSucceed ==
  (op = "step" /\ Len(history) >= 1) =>
     LET h == history[1]
         c == PollLog(1)
         last == c[Len(c)]
     IN  /\ h.ret # ReadyOk
         /\ h.ret = Pending <=>
              (HasCall(c, "step", "Ok") /\ HasCall(c, "set_high", "Ok")
                 /\ HasCall(c, "start", "Ok"))
         /\ h.ret = Pending => (h.pin = "high" /\ h.post = "PulseStarted")
         /\ h.ret # Pending =>
              /\ last.ret.t = "Err"
              /\ h.ret.err = last.ret.e
              /\ h.ret.kind = (CASE last.call = "step" -> "PinUnavailable"
                                 [] last.call = "set_high" -> "Pin"
                                 [] last.call = "start" -> "Timer")
              /\ h.post = "Initial"

C1_Witness ==
  /\ op = "step" /\ Len(history) = 1
  /\ history[1].ret = Pending /\ history[1].pin = "high"
  /\ state = PulseStarted

\* ---------------------------------------------------------------- C2

\* Poll i of a StepFuture returned success after the timer reported done and
\* the signal was driven low, and the signal is low.
PulseCompleted(i) ==
  /\ HasCall(LogUpTo(i), "wait", "Ok")
  /\ HasCall(LogUpTo(i), "set_low", "Ok")
  /\ history[i].pin = "low"

\* C2 as stated: whenever a poll of a StepFuture returns success, the timer
\* has reported done and the signal has been driven low, in that poll or an
\* earlier one.
C2_SuccessOnlyAfterPulse ==
  op = "step" =>
     \A i \in Polls : history[i].ret = ReadyOk => PulseCompleted(i)

\* C2 amended: whenever a poll of a StepFuture returns success, either the
\* timer has reported done and the signal has been driven low in that poll or
\* an earlier one, or an earlier poll returned a timer error from wait()
\* (which moved the phase to Finished with the signal not lowered).
C2_SuccessAfterPulseOrTimerError ==
  op = "step" =>
     \A i \in Polls : history[i].ret = ReadyOk =>
        \/ PulseCompleted(i)
        \/ \E j \in 1..(i - 1) :
              /\ history[j].pre = "PulseStarted"
              /\ history[j].ret.kind = "Timer"
              /\ HasCall(PollLog(j), "wait", "Err")

C2_Witness ==
  /\ op = "step"
  /\ \E i \in Polls :
        /\ history[i].pre = "PulseStarted" /\ history[i].ret = ReadyOk
        /\ \E j \in 1..(i - 1) : HasCall(PollLog(j), "wait", "WouldBlock")

\* ---------------------------------------------------------------- C3

\* C3 as stated: if set_high() fails on the first poll of a StepFuture, that
\* poll returns exactly that pin error and the second poll returns success.
C3_PinErrorThenSuccess ==
  (/\ op = "step" /\ Len(history) >= 2
   /\ HasCall(PollLog(1), "set_high", "Err")) =>
     /\ history[1].ret = ReadyErr("Pin", PollLog(1)[2].ret.e)
     /\ history[2].ret = ReadyOk

\* ---------------------------------------------------------------- C4

\* C4 as stated: over the polls of one SetStepModeFuture, apply_mode_config
\* and enable_driver are each called at most once, apply before enable.
C4_ApplyAndEnableOnce ==
  op = "mode" =>
     /\ Count(log, "apply_mode_config") <= 1
     /\ Count(log, "enable_driver") <= 1
     /\ \A k \in 1..Len(log) : log[k].call = "enable_driver" =>
           \E j \in 1..(k - 1) : log[j].call = "apply_mode_config"

\* ---------------------------------------------------------------- C5

\* The polls of a SetStepModeFuture made in phase ApplyingConfig.
ACPolls == {i \in Polls : history[i].pre = "ApplyingConfig"}

\* C5 as stated: in ApplyingConfig a poll on which the timer is still
\* counting returns Pending, keeps the phase and makes no driver call; and
\* once the timer has reported done after k such polls, the phase has been
\* left and exactly k+1 polls were spent in ApplyingConfig.
C5_PollsInApplyingConfig ==
  op = "mode" =>
     LET wb == {i \in ACPolls : HasCall(PollLog(i), "try_wait", "WouldBlock")}
     IN  /\ \A i \in wb :
              /\ history[i].ret = Pending
              /\ history[i].post = "ApplyingConfig"
              /\ Len(PollLog(i)) = 1
         /\ (\E i \in ACPolls : HasCall(PollLog(i), "try_wait", "Ok")) =>
              /\ state.tag # "ApplyingConfig"
              /\ Cardinality(ACPolls) = Cardinality(wb) + 1

\* ---------------------------------------------------------------- C6

C7_StartMoveExactlyOnce ==
  (op = "move" /\ Len(history) >= 1) => Count(log, "move_to_position") = 1

\* C7 amended: move_to_position is called exactly once on every poll made in
\* phase Initial and on no other poll; it succeeds at most once and is never
\* called again after it succeeded (one call in total only when the first
\* call succeeds or no poll follows a failed one).
C7_StartMoveOncePerInitialPoll ==
  op = "move" =>
     /\ \A i \in Polls :
           Count(PollLog(i), "move_to_position")
              = (IF history[i].pre = "Initial" THEN 1 ELSE 0)
     /\ \A k \in 1..Len(log) :
           (log[k].call = "move_to_position" /\ log[k].ret.t = "Ok") =>
              \A j \in (k + 1)..Len(log) : log[j].call # "move_to_position"
     /\ state.tag # "Initial" <=> HasCall(log, "move_to_position", "Ok")

C7_Witness ==
  /\ op = "move" /\ state.tag = "Finished"
  /\ Count(log, "move_to_position") = 2
  /\ Len(history) = MaxPolls

\* ---------------------------------------------------------------- C8

\* C8: every poll of a MoveToFuture made in phase Moving calls update exactly
\* once and nothing else; if update reports motion in progress the poll
\* returns Pending and the phase stays Moving; the poll returns success, and
\* the phase becomes Finished, exactly when update reports motion finished.
C8_UpdateOncePerMovingPoll ==
  op = "move" =>
     \A i \in Polls : history[i].pre = "Moving" =>
        LET c == PollLog(i)
        IN  /\ Len(c) = 1
            /\ c[1].call = "update"
            /\ c[1].ret = OkV(TRUE) =>
                 (history[i].ret = Pending /\ history[i].post = "Moving")
            /\ history[i].ret = ReadyOk <=> c[1].ret = OkV(FALSE)
            /\ history[i].post = "Finished" <=> c[1].ret = OkV(FALSE)

C8_Witness ==
  /\ op = "move" /\ state.tag = "Finished"
  /\ \E i \in Polls :
        /\ history[i].pre = "Moving" /\ history[i].ret = Pending
        /\ history[i + 1].pre = "Moving" /\ history[i + 1].ret = ReadyOk

\* ---------------------------------------------------------------- C9

\* C9: in all three operations a poll made in phase Finished returns
\* success, leaves the phase Finished, calls no capability and leaves the
\* step signal as it was.
C9_FinishedIsIdempotent ==
  \A i \in Polls : history[i].pre = "Finished" =>
     /\ history[i].ret = ReadyOk
     /\ history[i].post = "Finished"
     /\ Len(PollLog(i)) = 0
     /\ i > 1
     /\ history[i].pin = history[i - 1].pin

\* A pulse whose timer failed: polled twice in Finished, signal still high.
C9_Witness ==
  /\ op = "step" /\ pin = "high"
  /\ \E i \in Polls :
        /\ i + 1 \in Polls
        /\ history[i].pre = "Finished"
        /\ history[i + 1].pre = "Finished"

\* ---------------------------------------------------------------- C10

\* The declared order of the phases of each State enum.
Rank(o, tag) ==
  CASE o = "step" -> (CASE tag = "Initial" -> 0
                        [] tag = "PulseStarted" -> 1
                        [] tag = "Finished" -> 2
                        [] OTHER -> -1)
    [] o = "mode" -> (CASE tag = "Initial" -> 0
                        [] tag = "ApplyingConfig" -> 1
                        [] tag = "EnablingDriver" -> 2
                        [] tag = "Finished" -> 3
                        [] OTHER -> -1)
    [] o = "move" -> (CASE tag = "Initial" -> 0
                        [] tag = "Moving" -> 1
                        [] tag = "Finished" -> 2
                        [] OTHER -> -1)

\* C10: in every operation no poll moves the phase to an earlier phase of the
\* declared order (so a phase that was left is never entered again), and
\* the phase is always one of the operation's own.
C10_PhasesOnlyForward ==
  [][/\ Rank(op, state.tag) >= 0
     /\ Rank(op', state'.tag) >= Rank(op, state.tag)]_vars

\* A mode switch that went through all four phases.
C10_Witness ==
  /\ op = "mode" /\ state.tag = "Finished"
  /\ \E i \in Polls : history[i].pre = "Initial" /\ history[i].post = "ApplyingConfig"
  /\ \E i \in Polls : history[i].pre = "ApplyingConfig" /\ history[i].post = "EnablingDriver"
  /\ \E i \in Polls : history[i].pre = "EnablingDriver" /\ history[i].post = "Finished"

\* ---------------------------------------------------------------- C11

\* The capability call that failed in poll i, if the poll returned an error
\* of a capability (a conversion error is no capability call).
FailedCall(i) == PollLog(i)[Len(PollLog(i))]

\* C11 as stated: a poll in which a fallible step fails returns that error
\* and leaves the phase Finished, except a failed move_to_position in
\* MoveToFuture's Initial phase, which leaves the phase Initial.
C11_ErrorLeavesFinished ==
  \A i \in Polls : IsErr(history[i].ret) =>
     /\ history[i].ret.kind # "TimeConversion" =>
          /\ FailedCall(i).ret.t = "Err"
          /\ history[i].ret.err = FailedCall(i).ret.e
     /\ IF op = "move" /\ history[i].pre = "Initial"
          THEN history[i].post = "Initial"
          ELSE history[i].post = "Finished"

\* ---------------------------------------------------------------- C16

\* Poll i waited on the timer and the timer reported a failure.
TimerFailed(i) ==
  /\ history[i].pre \in {"PulseStarted", "ApplyingConfig", "EnablingDriver"}
  /\ \E e \in ErrVals : PollLog(i)[1].ret = Err(e)

\* C16: in StepFuture (PulseStarted) and SetStepModeFuture (ApplyingConfig,
\* EnablingDriver) a poll on which the timer's wait fails returns that timer
\* error, moves the phase to Finished and calls nothing on the driver (the
\* signal is not lowered, the driver is not enabled); every later poll
\* returns success.
C16_TimerFailureMasked ==
  op \in {"step", "mode"} =>
     \A i \in Polls : TimerFailed(i) =>
        /\ history[i].ret = ReadyErr("Timer", PollLog(i)[1].ret.e)
        /\ history[i].post = "Finished"
        /\ Len(PollLog(i)) = 1
        /\ PollLog(i)[1].call \in {"wait", "try_wait"}
        /\ i > 1 /\ history[i].pin = history[i - 1].pin
        /\ \A j \in Polls : j > i =>
              /\ history[j].ret = ReadyOk
              /\ history[j].pre = "Finished"

\* A pulse whose timer failed, polled again: success, signal still high.
C16_Witness ==
  /\ op = "step" /\ pin = "high"
  /\ \E i \in Polls :
        /\ TimerFailed(i)
        /\ i + 1 \in Polls
        /\ history[i + 1].ret = ReadyOk

\* ---------------------------------------------------------------- C17

\* C17 as stated: a MoveToFuture returns errors only from polls made in
\* phase Initial, never from a poll made after it entered Moving.
C17_ErrorsOnlyInInitial ==
  op = "move" =>
     \A i \in Polls : IsErr(history[i].ret) => history[i].pre = "Initial"

\* C17 amended: a MoveToFuture never returns an error from a poll made in
\* phase Finished; a poll made in Initial or Moving returns an error exactly
\* when its request (move_to_position, update) fails, and it is that error.
C17_ErrorsIffRequestFails ==
  op = "move" =>
     \A i \in Polls :
        /\ history[i].pre = "Finished" => ~IsErr(history[i].ret)
        /\ history[i].pre \in {"Initial", "Moving"} =>
             /\ Len(PollLog(i)) = 1
             /\ IsErr(history[i].ret) <=> PollLog(i)[1].ret.t = "Err"
             /\ IsErr(history[i].ret) =>
                  history[i].ret = ReadyErr("Driver", PollLog(i)[1].ret.e)

\* An update that failed in Moving, and the move finished afterwards.
C17_Witness ==
  /\ op = "move" /\ state.tag = "Finished"
  /\ \E i \in Polls :
        /\ history[i].pre = "Moving" /\ IsErr(history[i].ret)
        /\ history[i].post = "Moving"

\* ---------------------------------------------------------------- C18

\* C18: when move_to_position fails in phase Initial, the poll returns that
\* error and the phase stays Initial; the next poll calls move_to_position
\* again with the same max_velocity and target_step; when it succeeds the
\* phase becomes Moving and the poll returns Pending.
C18_FailedStartIsRetried ==
  op = "move" =>
     \A i \in Polls : history[i].pre = "Initial" =>
        LET c == PollLog(i)[1]
        IN  /\ c.call = "move_to_position"
            /\ c.ret.t = "Err" =>
                 /\ history[i].ret = ReadyErr("Driver", c.ret.e)
                 /\ history[i].post = "Initial"
                 /\ i + 1 \in Polls =>
                      /\ history[i + 1].pre = "Initial"
                      /\ PollLog(i + 1)[1].call = "move_to_position"
                      /\ PollLog(i + 1)[1].arg = c.arg
                 /\ i = Len(history) =>
                      (state.tag = "Initial"
                         /\ <<state.max_velocity, state.target_step>> = c.arg)
            /\ c.ret.t = "Ok" =>
                 (history[i].ret = Pending /\ history[i].post = "Moving")

\* Two failed starts, then a successful one.
C18_Witness ==
  /\ op = "move" /\ state.tag = "Moving"
  /\ Len(history) = 3
  /\ IsErr(history[1].ret) /\ IsErr(history[2].ret)
  /\ history[3].ret = Pending

\* ---------------------------------------------------------------- C19

\* A successful timer start for duration d is among the first k calls of log.
StartedBefore(k, d) ==
  \E j \in 1..(k - 1) :
     /\ log[j].call \in {"start", "try_start"}
     /\ log[j].ret.t = "Ok"
     /\ log[j].arg = <<d>>

\* C19: the timer's wait is never called unless a timer start succeeded
\* earlier on the same operation; in SetStepModeFuture a wait made in phase
\* EnablingDriver comes after a successful start of HOLD_TIME, and a start of
\* HOLD_TIME is only attempted right after enable_driver succeeded.
C19_WaitOnlyAfterStart ==
  /\ \A k \in 1..Len(log) : log[k].call \in {"wait", "try_wait"} =>
        \E d \in {"PULSE_LENGTH", "SETUP_TIME", "HOLD_TIME"} : StartedBefore(k, d)
  /\ \A i \in Polls : history[i].pre = "EnablingDriver" =>
        StartedBefore(LogBefore(i) + 1, "HOLD_TIME")
  /\ \A k \in 1..Len(log) :
        (log[k].call = "try_start" /\ log[k].arg = <<"HOLD_TIME">>) =>
           /\ k > 1
           /\ log[k - 1] = Call("enable_driver", Ok, <<>>)
           /\ \E i \in Polls : LogBefore(i) < k - 1 /\ k <= history[i].n

\* The hold timer was waited on.
C19_Witness ==
  /\ op = "mode"
  /\ \E i \in Polls :
        /\ history[i].pre = "EnablingDriver"
        /\ PollLog(i)[1].call = "try_wait"

\* ---------------------------------------------------------------- C15

\* C15: every poll through the Future impl of StepFuture or MoveToFuture
\* polls the operation exactly once and returns what that poll returned; it
\* wakes the task exactly once when that is Pending and not at all when it
\* is a final result.
C15_AdapterWakesOnPending ==
  /\ Len(wakes) = Len(history)
  /\ \A k \in 1..Len(wakes) :
        /\ wakes[k].at = k
        /\ wakes[k].inner = 1
        /\ wakes[k].out = history[k].ret
        /\ wakes[k].woken = (IF history[k].ret = Pending THEN 1 ELSE 0)

\* A pulse polled to its end through the adapter: woken on the Pending
\* polls, not on the final one.
C15_Witness ==
  /\ op = "step" /\ state.tag = "Finished"
  /\ Len(wakes) = 3
  /\ wakes[1].woken = 1 /\ wakes[2].woken = 1
  /\ wakes[3].woken = 0 /\ wakes[3].out = ReadyOk

\* ---------------------------------------------------------------- C14

\* Every wait() that returned made only Pending polls before its last one,
\* which was final and whose result it returned; and a wait() that is
\* still running has seen only Pending polls and can make its next poll.
WaitReturnsFirstFinalPoll ==
  /\ \A k \in 1..Len(waits) :
        LET w == waits[k]
        IN  /\ w.first <= w.last /\ w.last <= Len(history)
            /\ history[w.last].ret.poll = "Ready"
            /\ w.result = ResultOf(history[w.last].ret)
            /\ \A i \in w.first..(w.last - 1) : history[i].ret = Pending
            /\ k < Len(waits) => waits[k + 1].first > w.last
  /\ pc.at = "wait" =>
        /\ \A i \in pc.from..Len(history) : history[i].ret = Pending
        /\ \A k \in 1..Len(waits) : waits[k].last < pc.from
        /\ Len(history) < MaxCalls + MaxBusy + 1

\* C14: wait() polls until a poll reports a final result and returns
\* exactly that result, polling no more; and it returns in every run in
\* which the timer stops answering "still counting" (the motion capability
\* stops answering "still moving").
C14_WaitReturnsAndTerminates ==
  /\ []WaitReturnsFirstFinalPoll
  /\ (pc.at = "wait") ~> (pc.at = "idle")

\* A wait() that polled three times or more and returned an error.
C14_Witness ==
  /\ Len(waits) >= 1
  /\ waits[1].last >= waits[1].first + 2
  /\ waits[1].result.res = "Err"
  /\ pc.at = "idle"

\* ---------------------------------------------------------------- C20

\* No capability call failed and both durations convert.
FaultFree == FaultCount = 0 /\ conv = [setup |-> Ok, hold |-> Ok]

C12_ReleaseThenNewIsFresh ==
  ref.live =>
     /\ Len(history) - ref.base = Len(ref.rets)
     /\ \A k \in 1..Len(ref.rets) : history[ref.base + k].ret = ref.rets[k]
     /\ SubSeq(log, ref.logbase + 1, Len(log)) = ref.log
     /\ owner = "future" => state = ref.state
     /\ Len(history) = ref.base => state.tag = "Initial"

\* A pulse released while the signal was high (constructed with it low),
\* reconstructed and polled to its end.
C12_Witness ==
  /\ op = "step" /\ ref.live /\ ref.from = "PulseStarted"
  /\ history[1].pin = "high" /\ ref.base = 1
  /\ state.tag = "Finished" /\ pin = "low"
  /\ ref.rets = <<Pending, Pending, ReadyOk>>

\* ---------------------------------------------------------------- C13

\* C13: release can be called in every phase of a StepFuture or
\* MoveToFuture, and it calls nothing on the capabilities: it leaves the
\* step signal at its level (high, for a pulse released in PulseStarted)
\* and no capability call is made while the caller holds the driver.
C13_ReleaseTouchesNoHardware ==
  /\ [](owner = "future" => ENABLED Release)
  /\ [](state.tag = "PulseStarted" => pin = "high")
  /\ [][(owner = "future" /\ owner' = "caller") =>
          (log' = log /\ pin' = pin /\ history' = history)]_vars
  /\ [][owner = "caller" => log' = log]_vars

\* A pulse released in PulseStarted: the signal stays high; and a move
\* released in Moving.
C13_Witness ==
  /\ owner = "caller" /\ ~ref.live
  /\ \/ op = "step" /\ ref.from = "PulseStarted" /\ pin = "high"
     \/ op = "move" /\ ref.from = "Moving"
  /\ Len(history) >= 2

====
